---- MODULE Spec2Model ----
(***************************************************************************)
(* Model of optimized_jira_scrapper.py: the retrying HTTP call             *)
(* (safe_request), the checkpoint file (load_checkpoint, save_checkpoint), *)
(* the page plan and the concurrent page scheduler of scrape_project.      *)
(*                                                                         *)
(* Three specifications share the module:                                  *)
(*   Spec      runs of scrape_project on one project, its page fetches     *)
(*             running in pool threads and completing in any order;        *)
(*   SpecReq   one call of safe_request, every attempt logged;             *)
(*   SpecPlan  the page plan as a pure function of its inputs.             *)
(***************************************************************************)
EXTENDS Integers, Sequences, FiniteSets, TLC

VARIABLES
    pc,        \* position of the main thread in scrape_project
    run,       \* number of calls of scrape_project started so far
    total,     \* the number of issues the remote project holds
    ckpt,      \* the checkpoint file of the project
    disc,      \* attempt number of the discovery call (0: not in it)
    pages,     \* the page plan of the current run (line 205)
    unit,      \* per planned offset: the state of its future
    results,   \* the aggregate of the current run (line 206)
    out,       \* the two output artifacts of the project
    saved,     \* offsets passed to save_checkpoint in the current run, in order
    startCkpt, \* start_checkpoint of the current run (line 204)
    net,       \* the outcomes the network and the remote service produce
    bad,       \* indices of the remote issues transform_issue raises on
    todo,      \* main: the projects still to scrape, with their checkpoint files
    finished,  \* main: how scrape_project ended for each project scraped
    load,      \* SpecLoad: a checkpoint file and what load_checkpoint made of it
    req,       \* SpecReq: the state of one safe_request call
    plan       \* SpecPlan: inputs and output of the page plan

vars == <<pc, run, total, ckpt, disc, pages, unit, results, out, saved,
          startCkpt, net, bad, todo, finished, load, req, plan>>

----------------------------------------------------------------------------
(* Configuration, lines 17-20 *)

MAX_RESULTS == 50
MAX_RETRIES == 5
RETRY_BACKOFF == 5
MAX_WORKERS == 5

(* Bounds of the model *)

\* calls of scrape_project on the project in one behaviour
MaxRuns == 2
\* largest total_count and resume_offset SpecPlan draws
MaxPlanTotal == 12
\* largest page_size SpecPlan draws
MaxPageSize == 4
\* largest stored offset SpecLoad draws
MaxStored == 100

Min(a, b) == IF a <= b THEN a ELSE b

Max(a, b) == IF a >= b THEN a ELSE b

RECURSIVE SeqMax(_)
SeqMax(s) == IF s = <<>> THEN 0 ELSE Max(Head(s), SeqMax(Tail(s)))

Range(s) == {s[i] : i \in 1..Len(s)}

----------------------------------------------------------------------------
(* safe_request, lines 38-67 *)

\* What one attempt can meet: a transport failure (RequestException), or a
\* response with a status code, a Retry-After header and a body. A "full"
\* body is an object holding what the caller reads ("total", a non-empty
\* "issues"); a "bare" one is empty or lacks it.
NoHeader == [kind |-> "absent", val |-> 0]

RetryAfterHeaders ==
    {NoHeader, [kind |-> "text", val |-> 0]}
        \cup {[kind |-> "int", val |-> v] : v \in {-1, 0, 120}}

StatusCodes == {200, 403, 404, 429, 499, 500, 599, 600}

Outcomes ==
    {[transport |-> TRUE, code |-> 0, hdr |-> NoHeader, body |-> "none"]}
        \cup {[transport |-> FALSE, code |-> 200, hdr |-> NoHeader, body |-> b] :
                 b \in {"full", "bare"}}
        \cup {[transport |-> FALSE, code |-> 429, hdr |-> h, body |-> "none"] :
                 h \in RetryAfterHeaders}
        \cup {[transport |-> FALSE, code |-> c, hdr |-> NoHeader, body |-> "none"] :
                 c \in StatusCodes \ {200, 429}}

\* Mutant of Backoff: the exponential backoff the docstring speaks of
BackoffExponential(attempt) == Min(RETRY_BACKOFF * 2 ^ (attempt - 1), 60)

\* min(RETRY_BACKOFF * attempt, 60), lines 55 and 63
Backoff(attempt) == Min(RETRY_BACKOFF * attempt, 60)

\* int(resp.headers.get("Retry-After", 60)) and time.sleep of it, lines 51-53:
\* int() of a header that is no integer raises ValueError, and so does
\* time.sleep of a negative number; neither is a RequestException.
RateLimit(hdr) ==
    IF hdr.kind = "absent" THEN [act |-> "sleep", dur |-> 60]
    ELSE IF hdr.kind = "int" /\ hdr.val >= 0 THEN [act |-> "sleep", dur |-> hdr.val]
    ELSE [act |-> "raise", dur |-> 0]

\* Mutant of Attempt: every status but 200 and 429 is retried like a 5xx
AttemptRetriesAll(attempt, o) ==
    IF o.transport THEN [act |-> "sleep", dur |-> Backoff(attempt)]
    ELSE IF o.code = 200 THEN [act |-> "return", dur |-> 0]
    ELSE IF o.code = 429 THEN RateLimit(o.hdr)
    ELSE [act |-> "sleep", dur |-> Backoff(attempt)]

\* The body of the loop for one attempt, lines 46-65: what the attempt does
\* on outcome o.
Attempt(attempt, o) ==
    IF o.transport THEN [act |-> "sleep", dur |-> Backoff(attempt)]
    ELSE IF o.code = 200 THEN [act |-> "return", dur |-> 0]
    ELSE IF o.code = 429 THEN RateLimit(o.hdr)
    ELSE IF 500 <= o.code /\ o.code < 600
         THEN [act |-> "sleep", dur |-> Backoff(attempt)]
    ELSE [act |-> "null", dur |-> 0]

\* The loop header and the fall-through, lines 45 and 66-67: after a sleep the
\* next attempt, or None once MAX_RETRIES attempts are used up.
\* The result: "retry" or what safe_request returns ("body", "null", "raise").
AfterAttempt(attempt, o) ==
    LET a == Attempt(attempt, o) IN
    IF a.act = "return" THEN "body"
    ELSE IF a.act = "null" THEN "null"
    ELSE IF a.act = "raise" THEN "raise"
    ELSE IF attempt < MAX_RETRIES THEN "retry"
    ELSE "null"

----------------------------------------------------------------------------
(* SpecReq: one call of safe_request, attempt by attempt *)

ReqInit ==
    [st |-> "calling", attempt |-> 1, hist |-> <<>>, sleeps |-> <<>>,
     ret |-> "none"]

\* One pass of the loop body, lines 45-65, with outcome o; the sleep of the
\* attempt, if it takes one, is logged with the attempt's number.
ReqAttempt(o) ==
    /\ req.st = "calling"
    /\ LET a == Attempt(req.attempt, o)
           r == AfterAttempt(req.attempt, o)
       IN req' = [st |-> IF r = "retry" THEN "calling" ELSE "returned",
                  attempt |-> IF r = "retry" THEN req.attempt + 1 ELSE req.attempt,
                  hist |-> Append(req.hist, o),
                  sleeps |-> IF a.act = "sleep"
                             THEN Append(req.sleeps,
                                         [after |-> req.attempt, dur |-> a.dur])
                             ELSE req.sleeps,
                  ret |-> IF r = "retry" THEN "none" ELSE r]
    /\ UNCHANGED <<pc, run, total, ckpt, disc, pages, unit, results, out,
                   saved, startCkpt, plan>>
    /\ UNCHANGED <<net, bad, todo, finished, load>>

----------------------------------------------------------------------------
(* The checkpoint file, lines 74-91 *)

NoFile == [kind |-> "absent", val |-> 0]

\* What the checkpoint file of a project may hold:
\*   "absent"      no file;
\*   "object"      {"last_startAt": val}, val an integer;
\*   "nokey"       a JSON object without "last_startAt";
\*   "nonint"      a JSON object whose "last_startAt" is no integer (null, a
\*                 string, a float);
\*   "nonobject"   JSON that is no object (a list, a number, null);
\*   "corrupt"     text that is no JSON (json.load raises JSONDecodeError);
\*   "unreadable"  a file open() or read() fails on (OSError, or
\*                 UnicodeDecodeError on bytes that are no text).
BadFileKinds == {"absent", "nokey", "nonint", "nonobject", "corrupt", "unreadable"}

CheckpointFiles ==
    {[kind |-> k, val |-> 0] : k \in BadFileKinds}
        \cup {[kind |-> "object", val |-> v] : v \in 0..MaxStored}

\* load_checkpoint, lines 74-84: the stored last_startAt, 0 when the file is
\* absent or json.load raises JSONDecodeError.
load_checkpoint(f) == IF f.kind = "object" THEN f.val ELSE 0

\* Lines 79-81: the except clause names json.JSONDecodeError only, so the
\* OSError or UnicodeDecodeError of open() and read(), and the AttributeError
\* of .get on a value that is no dict, leave load_checkpoint.
load_checkpoint_raises(f) == f.kind \in {"unreadable", "nonobject"}

\* Line 80: .get returns the stored value as it is, integer or not; line 205
\* passes it to range(), which raises TypeError on a value that is no integer.
LoadsNonInteger(f) == f.kind = "nonint"

\* What a call load_checkpoint(project_key) does on file f
LoadOutcome(f) ==
    IF load_checkpoint_raises(f) THEN [act |-> "raise", val |-> 0]
    ELSE IF LoadsNonInteger(f) THEN [act |-> "return_noninteger", val |-> 0]
    ELSE [act |-> "return", val |-> load_checkpoint(f)]

LoadInit == [file |-> NoFile, done |-> FALSE, outcome |-> [act |-> "none", val |-> 0]]

\* SpecLoad: load_checkpoint called on the drawn file
LoadApply ==
    /\ ~load.done
    /\ load' = [load EXCEPT !.done = TRUE, !.outcome = LoadOutcome(load.file)]
    /\ UNCHANGED <<pc, run, total, ckpt, disc, pages, unit, results, out,
                   saved, startCkpt, net, bad, todo, finished, req, plan>>

\* save_checkpoint, lines 87-91: the file rewritten with start_at, whatever
\* it held.
save_checkpoint(f, start_at) == [kind |-> "object", val |-> start_at]

----------------------------------------------------------------------------
(* The page plan, line 205 *)

\* range(start, stop, step) as a list
RECURSIVE PyRange(_, _, _)
PyRange(start, stop, step) ==
    IF start >= stop THEN <<>>
    ELSE <<start>> \o PyRange(start + step, stop, step)

\* Mutant of PagePlan: the last, partial page is left out
PagePlanDropsPartial(total_count, resume_offset, page_size) ==
    PyRange(resume_offset, total_count - page_size + 1, page_size)

\* Mutant of PagePlan: the plan starts at the first multiple of page_size at
\* or after resume_offset
PagePlanAligned(total_count, resume_offset, page_size) ==
    PyRange(((resume_offset + page_size - 1) \div page_size) * page_size,
            total_count, page_size)

\* pages = [start for start in range(start_checkpoint, total, MAX_RESULTS)]
PagePlan(total_count, resume_offset, page_size) ==
    PyRange(resume_offset, total_count, page_size)

PlanInit ==
    [total_count |-> 0, resume_offset |-> 0, page_size |-> 1,
     offsets |-> <<>>, done |-> FALSE]

\* SpecPlan: the plan computed for the drawn inputs
PlanApply ==
    /\ ~plan.done
    /\ plan' = [plan EXCEPT
                  !.offsets = PagePlan(plan.total_count, plan.resume_offset,
                                       plan.page_size),
                  !.done = TRUE]
    /\ UNCHANGED <<pc, run, total, ckpt, disc, pages, unit, results, out,
                   saved, startCkpt, req>>
    /\ UNCHANGED <<net, bad, todo, finished, load>>

----------------------------------------------------------------------------
(* scrape_project, lines 186-247, and the pool threads running fetch_page *)

\* totals the remote project may hold
Totals == {0, 70, 120}

NoUnits == [p \in {} |-> 0]

\* A future submitted at line 212, not yet taken by a pool thread
Queued == [st |-> "queued", attempt |-> 0, res |-> "none"]

\* The records of the page at start_at that a full body holds: the remote's
\* issues start_at .. start_at + maxResults - 1, as far as it has them.
PageOf(start_at) ==
    [off |-> start_at, n |-> Min(MAX_RESULTS, total - start_at)]

\* The issue indices a sequence of page records holds, as a bag
RECURSIVE IssueCount(_, _)
IssueCount(chunks, i) ==
    IF chunks = <<>> THEN 0
    ELSE (IF Head(chunks).off <= i /\ i < Head(chunks).off + Head(chunks).n
          THEN 1 ELSE 0) + IssueCount(Tail(chunks), i)

RECURSIVE NumRecords(_)
NumRecords(chunks) ==
    IF chunks = <<>> THEN 0 ELSE Head(chunks).n + NumRecords(Tail(chunks))

\* The issue indices of the page at start_at
IssuesOf(start_at) == start_at .. start_at + PageOf(start_at).n - 1

\* transform_issue, lines 129-179, raises on an issue whose fields hold null
\* where it calls .get on the value (fields.get("reporter", {}).get(...), and
\* the same for project, status, priority and comment): AttributeError.
TransformRaises(start_at) == IssuesOf(start_at) \cap bad # {}

\* Lines 221-222: the records appended for the page at start_at, one issue
\* after the other, up to the first one transform_issue raises on.
Transformed(start_at) ==
    IF TransformRaises(start_at)
    THEN LET b == CHOOSE i \in IssuesOf(start_at) \cap bad :
                     \A j \in IssuesOf(start_at) \cap bad : i <= j
         IN [off |-> start_at, n |-> b - start_at]
    ELSE PageOf(start_at)

\* Mutant of TotalIsZero: no early return, the run goes on with total 0
TotalIsZeroNever(tot) == FALSE

\* total == 0, line 199
TotalIsZero(tot) == tot = 0

\* get_total_issues, lines 98-105, on what safe_request returned:
\* data.get("total", 0) if data else 0
get_total_issues(r, o) == IF r = "body" /\ o.body = "full" THEN total ELSE 0

\* fetch_page, lines 108-122, on what safe_request returned: the issues of
\* the page, or [] when the call returned None or a body without issues; an
\* exception of safe_request leaves through fetch_page.
fetch_page(r, o) ==
    IF r = "raise" THEN "raised"
    ELSE IF r = "null" THEN "failed"
    ELSE IF o.body = "full" THEN "issues"
    ELSE "empty"

\* main's call of scrape_project (line 257), or the script run again on the
\* same project: the discovery call begins.
Call ==
    /\ pc \in {"idle", "done", "empty"}
    /\ run < MaxRuns
    /\ pc' = "discover"
    /\ run' = run + 1
    /\ disc' = 1
    /\ UNCHANGED <<total, ckpt, pages, unit, results, out, saved, startCkpt,
                   req, plan>>
    /\ UNCHANGED <<net, bad, todo, finished, load>>

\* Lines 193-212. One attempt of the discovery call with outcome o; when the
\* call returns: total == 0 returns [] (line 201), else the checkpoint is
\* loaded, the pages are planned and every page is submitted to the pool. An
\* exception of safe_request, of load_checkpoint or of range() leaves
\* scrape_project and main: neither has a try around the call.
Discover(o) ==
    /\ pc = "discover"
    /\ o \in net
    /\ LET r == AfterAttempt(disc, o)
           tot == get_total_issues(r, o)
           start_checkpoint == load_checkpoint(ckpt)
           pgs == PagePlan(tot, start_checkpoint, MAX_RESULTS)
       IN IF r = "retry"
          THEN /\ disc' = disc + 1
               /\ UNCHANGED <<pc, pages, unit, results, saved, startCkpt>>
          ELSE /\ disc' = 0
               /\ IF r = "raise"
                  THEN /\ pc' = "crashed"
                       /\ UNCHANGED <<pages, unit, results, saved, startCkpt>>
                  ELSE IF TotalIsZero(tot)
                  THEN /\ pc' = "empty"
                       /\ pages' = <<>>
                       /\ unit' = NoUnits
                       /\ results' = <<>>
                       /\ saved' = <<>>
                       /\ UNCHANGED startCkpt
                  ELSE IF load_checkpoint_raises(ckpt) \/ LoadsNonInteger(ckpt)
                  THEN /\ pc' = "crashed"
                       /\ UNCHANGED <<pages, unit, results, saved, startCkpt>>
                  ELSE /\ pc' = "fetch"
                       /\ startCkpt' = start_checkpoint
                       /\ pages' = pgs
                       /\ unit' = [p \in Range(pgs) |-> Queued]
                       /\ results' = <<>>
                       /\ saved' = <<>>
    /\ UNCHANGED <<run, total, ckpt, out, req, plan>>
    /\ UNCHANGED <<net, bad, todo, finished, load>>

Running == {p \in DOMAIN unit : unit[p].st = "running"}

\* Mutant of WorkerStart: one thread per submitted work item
WorkerStartUnbounded(p) ==
    /\ pc = "fetch"
    /\ p \in DOMAIN unit
    /\ unit[p].st = "queued"
    /\ unit' = [unit EXCEPT ![p] = [@ EXCEPT !.st = "running", !.attempt = 1]]
    /\ UNCHANGED <<pc, run, total, ckpt, disc, pages, results, out, saved,
                   startCkpt, req, plan>>
    /\ UNCHANGED <<net, bad, todo, finished, load>>

\* ThreadPoolExecutor(max_workers=MAX_WORKERS), line 210: a pool thread takes
\* the oldest queued work item; at most MAX_WORKERS threads exist.
WorkerStart(p) ==
    /\ pc = "fetch"
    /\ p \in DOMAIN unit
    /\ unit[p].st = "queued"
    /\ \A q \in DOMAIN unit : unit[q].st = "queued" => p <= q
    /\ Cardinality(Running) < MAX_WORKERS
    /\ unit' = [unit EXCEPT ![p] = [@ EXCEPT !.st = "running", !.attempt = 1]]
    /\ UNCHANGED <<pc, run, total, ckpt, disc, pages, results, out, saved,
                   startCkpt, req, plan>>
    /\ UNCHANGED <<net, bad, todo, finished, load>>

\* Mutant of WorkerAttempt: fetch_page saves the checkpoint itself when its
\* page has issues
WorkerAttemptSaves(p, o) ==
    /\ pc = "fetch"
    /\ p \in DOMAIN unit
    /\ unit[p].st = "running"
    /\ o \in net
    /\ LET r == AfterAttempt(unit[p].attempt, o)
       IN /\ unit' = [unit EXCEPT ![p] =
                        IF r = "retry"
                        THEN [@ EXCEPT !.attempt = @ + 1]
                        ELSE [st |-> "done", attempt |-> unit[p].attempt,
                              res |-> fetch_page(r, o)]]
          /\ IF r # "retry" /\ fetch_page(r, o) = "issues"
             THEN /\ ckpt' = save_checkpoint(ckpt, p + MAX_RESULTS)
                  /\ saved' = Append(saved, p + MAX_RESULTS)
             ELSE UNCHANGED <<ckpt, saved>>
    /\ UNCHANGED <<pc, run, total, disc, pages, results, out, startCkpt, req,
                   plan>>
    /\ UNCHANGED <<net, bad, todo, finished, load>>

\* A pool thread in fetch_page(project_key, p): one attempt of its
\* safe_request with outcome o; when the call returns the future completes.
WorkerAttempt(p, o) ==
    /\ pc = "fetch"
    /\ p \in DOMAIN unit
    /\ unit[p].st = "running"
    /\ o \in net
    /\ LET r == AfterAttempt(unit[p].attempt, o)
       IN unit' = [unit EXCEPT ![p] =
                     IF r = "retry"
                     THEN [@ EXCEPT !.attempt = @ + 1]
                     ELSE [st |-> "done", attempt |-> unit[p].attempt,
                           res |-> fetch_page(r, o)]]
    /\ UNCHANGED <<pc, run, total, ckpt, disc, pages, results, out, saved,
                   startCkpt, req, plan>>
    /\ UNCHANGED <<net, bad, todo, finished, load>>

\* Mutant of Collect: no try around the loop body, an exception of the future
\* or of transform_issue leaves scrape_project
CollectPropagates(p) ==
    /\ pc = "fetch"
    /\ p \in DOMAIN unit
    /\ unit[p].st = "done"
    /\ unit' = [unit EXCEPT ![p] = [@ EXCEPT !.st = "collected"]]
    /\ IF unit[p].res = "issues" /\ ~TransformRaises(p)
       THEN /\ results' = Append(results, PageOf(p))
            /\ ckpt' = save_checkpoint(ckpt, p + MAX_RESULTS)
            /\ saved' = Append(saved, p + MAX_RESULTS)
            /\ UNCHANGED pc
       ELSE IF unit[p].res = "issues" \/ unit[p].res = "raised"
       THEN /\ pc' = "crashed"
            /\ UNCHANGED <<results, ckpt, saved>>
       ELSE UNCHANGED <<pc, results, ckpt, saved>>
    /\ UNCHANGED <<run, total, disc, pages, out, startCkpt, req, plan>>
    /\ UNCHANGED <<net, bad, todo, finished, load>>

\* The body of the as_completed loop for the completed future of page p,
\* lines 215-229: the issues of a non-empty page are transformed and appended
\* to results one by one and the checkpoint is then saved as p + MAX_RESULTS;
\* an empty page changes nothing. The except clause of line 225 ends the body
\* on an exception of the future (nothing changes) and on one of
\* transform_issue (the records appended before it stay, nothing is saved).
Collect(p) ==
    /\ pc = "fetch"
    /\ p \in DOMAIN unit
    /\ unit[p].st = "done"
    /\ unit' = [unit EXCEPT ![p] = [@ EXCEPT !.st = "collected"]]
    /\ IF unit[p].res = "issues" /\ ~TransformRaises(p)
       THEN /\ results' = Append(results, PageOf(p))
            /\ ckpt' = save_checkpoint(ckpt, p + MAX_RESULTS)
            /\ saved' = Append(saved, p + MAX_RESULTS)
       ELSE IF unit[p].res = "issues" /\ Transformed(p).n > 0
       THEN /\ results' = Append(results, Transformed(p))
            /\ UNCHANGED <<ckpt, saved>>
       ELSE UNCHANGED <<results, ckpt, saved>>
    /\ UNCHANGED <<pc, run, total, disc, pages, out, startCkpt, req, plan>>
    /\ UNCHANGED <<net, bad, todo, finished, load>>

\* Mutant of Finish: the outputs are written once a first future has been
\* yielded
FinishEarly ==
    /\ pc = "fetch"
    /\ \E p \in DOMAIN unit : unit[p].st = "collected"
    /\ out' = [json |-> [kind |-> "written", recs |-> results],
               jsonl |-> [kind |-> "written", recs |-> results]]
    /\ pc' = "done"
    /\ UNCHANGED <<run, total, ckpt, disc, pages, unit, results, saved,
                   startCkpt, req, plan>>
    /\ UNCHANGED <<net, bad, todo, finished, load>>

\* Lines 231-247: every future has been yielded; both output files are
\* rewritten with results and scrape_project returns.
Finish ==
    /\ pc = "fetch"
    /\ \A p \in DOMAIN unit : unit[p].st = "collected"
    /\ out' = [json |-> [kind |-> "written", recs |-> results],
               jsonl |-> [kind |-> "written", recs |-> results]]
    /\ pc' = "done"
    /\ UNCHANGED <<run, total, ckpt, disc, pages, unit, results, saved,
                   startCkpt, req, plan>>
    /\ UNCHANGED <<net, bad, todo, finished, load>>

----------------------------------------------------------------------------
(* main, lines 254-257 *)

NoOutput == [kind |-> "absent", recs |-> <<>>]

\* projects = ["ACCUMULO", "ACE", "AMQCPP"], line 255
Projects == <<"ACCUMULO", "ACE", "AMQCPP">>

\* The project scrape_project was last called for
Current == Projects[Len(Projects) - Len(todo)]

\* The for loop of main, lines 256-257: the call for the last project has
\* returned (or none was made yet), its locals are gone, and scrape_project
\* is called for the next project, whose checkpoint and output files are its
\* own.
MainStep ==
    /\ pc \in {"idle", "done", "empty"}
    /\ todo # <<>>
    /\ finished' = IF pc = "idle" THEN finished
                   ELSE Append(finished, [key |-> Current, ret |-> pc])
    /\ todo' = Tail(todo)
    /\ ckpt' = Head(todo).file
    /\ out' = [json |-> NoOutput, jsonl |-> NoOutput]
    /\ pc' = "discover"
    /\ run' = run + 1
    /\ disc' = 1
    /\ pages' = <<>>
    /\ unit' = NoUnits
    /\ results' = <<>>
    /\ saved' = <<>>
    /\ startCkpt' = 0
    /\ UNCHANGED <<total, net, bad, load, req, plan>>

\* The loop of main is exhausted: main returns and the process ends.
MainReturn ==
    /\ pc \in {"done", "empty"}
    /\ todo = <<>>
    /\ finished' = Append(finished, [key |-> Current, ret |-> pc])
    /\ pc' = "exit"
    /\ UNCHANGED <<run, total, ckpt, disc, pages, unit, results, out, saved,
                   startCkpt, net, bad, todo, load, req, plan>>

----------------------------------------------------------------------------
(* The specifications *)

SchedInit ==
    /\ pc = "idle"
    /\ run = 0
    /\ disc = 0
    /\ pages = <<>>
    /\ unit = NoUnits
    /\ results = <<>>
    /\ out = [json |-> NoOutput, jsonl |-> NoOutput]
    /\ saved = <<>>
    /\ startCkpt = 0

\* One project, every issue well formed, nothing else to scrape
OneProject ==
    /\ net = Outcomes
    /\ bad = {}
    /\ todo = <<>>
    /\ finished = <<>>

Init ==
    /\ SchedInit
    /\ OneProject
    /\ total \in Totals
    /\ ckpt \in {NoFile, [kind |-> "corrupt", val |-> 0]}
    /\ load = LoadInit
    /\ req = ReqInit
    /\ plan = PlanInit

Next ==
    \/ Call
    \/ \E o \in Outcomes : Discover(o)
    \/ \E p \in DOMAIN unit : WorkerStart(p)
    \/ \E p \in DOMAIN unit : \E o \in Outcomes : WorkerAttempt(p, o)
    \/ \E p \in DOMAIN unit : Collect(p)
    \/ Finish

Spec == Init /\ [][Next]_vars

InitReq ==
    /\ SchedInit
    /\ OneProject
    /\ total = 0
    /\ ckpt = NoFile
    /\ load = LoadInit
    /\ req = ReqInit
    /\ plan = PlanInit

NextReq == \E o \in Outcomes : ReqAttempt(o)

SpecReq == InitReq /\ [][NextReq]_vars

InitPlan ==
    /\ SchedInit
    /\ OneProject
    /\ total = 0
    /\ ckpt = NoFile
    /\ load = LoadInit
    /\ req = ReqInit
    /\ \E t \in 0..MaxPlanTotal, r \in 0..MaxPlanTotal + 2, s \in 1..MaxPageSize :
          plan = [total_count |-> t, resume_offset |-> r, page_size |-> s,
                  offsets |-> <<>>, done |-> FALSE]

NextPlan == PlanApply

SpecPlan == InitPlan /\ [][NextPlan]_vars

\* The checkpoint files main may find for a project
MainFiles ==
    {NoFile, [kind |-> "nonobject", val |-> 0], [kind |-> "nonint", val |-> 0]}

\* A response with the body the caller expects
Served == [transport |-> FALSE, code |-> 200, hdr |-> NoHeader, body |-> "full"]

\* main over its three projects, in one of two environments: projects of two
\* pages, any outcome of any attempt, an issue transform_issue raises on and
\* checkpoint files of any kind; or projects of more pages than the pool has
\* threads, every request answered at once with what it asks for.
InitMain ==
    /\ SchedInit
    /\ load = LoadInit
    /\ req = ReqInit
    /\ plan = PlanInit
    /\ finished = <<>>
    /\ ckpt = NoFile
    /\ \/ /\ total = MAX_RESULTS + 20
          /\ net = Outcomes
          /\ bad \in {{}, {0}, {MAX_RESULTS + 19}}
          /\ \E f \in [1..Len(Projects) -> MainFiles] :
                todo = [i \in 1..Len(Projects) |-> [key |-> Projects[i], file |-> f[i]]]
       \/ /\ total = (MAX_WORKERS + 1) * MAX_RESULTS
          /\ net = {Served}
          /\ bad = {}
          /\ todo = [i \in 1..Len(Projects) |-> [key |-> Projects[i], file |-> NoFile]]

NextMain ==
    \/ MainStep
    \/ MainReturn
    \/ \E o \in net : Discover(o)
    \/ \E p \in DOMAIN unit : WorkerStart(p)
    \/ \E p \in DOMAIN unit : \E o \in net : WorkerAttempt(p, o)
    \/ \E p \in DOMAIN unit : Collect(p)
    \/ Finish

SpecMain == InitMain /\ [][NextMain]_vars

\* A pool thread that has a work item takes its next step, and so does the
\* main thread: every attempt ends (timeout=30, line 47) and every sleep ends.
Fetching ==
    \/ \E p \in DOMAIN unit : WorkerStart(p)
    \/ \E p \in DOMAIN unit : \E o \in net : WorkerAttempt(p, o)
    \/ \E p \in DOMAIN unit : Collect(p)
    \/ Finish

SpecMainFair == SpecMain /\ WF_vars(Fetching)

InitLoad ==
    /\ SchedInit
    /\ OneProject
    /\ total = 0
    /\ ckpt = NoFile
    /\ req = ReqInit
    /\ plan = PlanInit
    /\ \E f \in CheckpointFiles :
          load = [file |-> f, done |-> FALSE,
                  outcome |-> [act |-> "none", val |-> 0]]

NextLoad == LoadApply

SpecLoad == InitLoad /\ [][NextLoad]_vars

----------------------------------------------------------------------------
(* The claims *)

Stored == load_checkpoint(ckpt)

Succeeded(p) == unit[p].res = "issues"

\* The plan the next call of scrape_project computes from the checkpoint
\* file as it stands, the remote total unchanged
NextPlanned == PagePlan(total, load_checkpoint(ckpt), MAX_RESULTS)

\* C1: when a run ends, the stored checkpoint is the largest offset passed to
\* save_checkpoint during the run, whatever the order the pages completed in.
C1_FinalCheckpointIsMaxSaved ==
    (pc = "done" /\ saved # <<>>) =>
        (ckpt.kind = "object" /\ ckpt.val = SeqMax(saved))

\* C2: within a run, no step lowers the stored checkpoint offset.
C2_CheckpointNonDecreasing ==
    [][(pc \in {"discover", "fetch"} =>
           (load_checkpoint(ckpt') >= load_checkpoint(ckpt)))]_vars

\* C3: during a run, every planned offset below the stored checkpoint has
\* completed with records and its records are in the aggregate.
C3_CheckpointOnlyPastIncorporated ==
    pc \in {"fetch", "done"} =>
        \A p \in Range(pages) :
            p < Stored =>
                /\ unit[p].st = "collected"
                /\ Succeeded(p)
                /\ PageOf(p) \in Range(results)

\* C4: a run in which exactly the page at offset k failed (safe_request
\* returned None) and every other page succeeded ends with the records of the
\* other pages, no checkpoint saved past k, and k planned again by the next run.
C4_PartialFailure ==
    pc = "done" =>
        \A k \in Range(pages) :
            (/\ unit[k].res = "failed"
             /\ \A q \in Range(pages) \ {k} : Succeeded(q)) =>
                /\ Range(results) = {PageOf(q) : q \in Range(pages) \ {k}}
                /\ Len(results) = Len(pages) - 1
                /\ \A i \in 1..Len(saved) : saved[i] <= k
                /\ k \in Range(NextPlanned)

\* C5: the run that follows a run whose pages all succeeded plans no page.
C5_ResumeIdempotent ==
    [][((/\ pc = "discover"
         /\ pc' = "fetch"
         /\ run = 2
         /\ pages # <<>>
         /\ \A p \in Range(pages) : unit[p].st = "collected" /\ Succeeded(p))
           => (pages' = <<>>))]_vars

\* C6: total 120, page size 50, resume offset 0, every page succeeding on its
\* first attempt: the plan is [0, 50, 100], the aggregate holds each of the 120
\* records once and the run ends with the checkpoint at 150.
C6_EndToEnd ==
    (/\ pc = "done"
     /\ total = 120
     /\ startCkpt = 0
     /\ \A p \in Range(pages) : Succeeded(p) /\ unit[p].attempt = 1) =>
        /\ pages = <<0, 50, 100>>
        /\ NumRecords(results) = 120
        /\ \A i \in 0..119 : IssueCount(results, i) = 1
        /\ ckpt = [kind |-> "object", val |-> 150]

CeilDiv(a, b) == (a + b - 1) \div b

\* C7: the plan holds ceil(max(0, total_count - resume_offset) / page_size)
\* offsets, strictly ascending, the first one resume_offset when
\* resume_offset < total_count, none when resume_offset >= total_count.
C7_PlanShape ==
    plan.done =>
        /\ Len(plan.offsets) =
              CeilDiv(Max(0, plan.total_count - plan.resume_offset),
                      plan.page_size)
        /\ \A i \in 1..Len(plan.offsets) - 1 :
              plan.offsets[i] < plan.offsets[i + 1]
        /\ plan.resume_offset < plan.total_count =>
              plan.offsets[1] = plan.resume_offset
        /\ plan.resume_offset >= plan.total_count => plan.offsets = <<>>

\* A plan of several pages from a resume offset past 0, the last page partial
C7_Witness ==
    /\ plan.done
    /\ plan.resume_offset > 0
    /\ Len(plan.offsets) >= 3
    /\ (plan.total_count - plan.resume_offset) % plan.page_size # 0

MultiplesIn(lo, hi, step) == {m \in lo..hi - 1 : m % step = 0}

IsServerError(o) == ~o.transport /\ 500 <= o.code /\ o.code <= 599

IsOtherStatus(o) ==
    ~o.transport /\ o.code \notin {200, 429} /\ ~IsServerError(o)

SleepsAfter(i) == {j \in 1..Len(req.sleeps) : req.sleeps[j].after = i}

\* C9: an attempt answered with a status that is neither 200, 429 nor 5xx is
\* the last one: safe_request has returned None, without a sleep for it.
C9_FailFast ==
    \A i \in 1..Len(req.hist) :
        IsOtherStatus(req.hist[i]) =>
            /\ i = Len(req.hist)
            /\ req.st = "returned"
            /\ req.ret = "null"
            /\ SleepsAfter(i) = {}

\* A 404 on the third attempt, after two retried attempts
C9_Witness ==
    /\ Len(req.hist) = 3
    /\ req.hist[3].code = 404
    /\ req.hist[1].code = 429
    /\ IsServerError(req.hist[2])
    /\ req.st = "returned"

IsRetryable(o) == o.transport \/ o.code = 429 \/ IsServerError(o)

\* C11: safe_request makes at most MAX_RETRIES attempts; an attempt answered
\* with 200 is the last one and the call returns the body; every outcome, a
\* 429 included, uses up one attempt; and the call returns None when all
\* MAX_RETRIES attempts ended in a 429, a 5xx or a transport failure.
C11_BoundedRetries ==
    /\ Len(req.hist) <= MAX_RETRIES
    /\ req.st = "calling" => req.attempt = Len(req.hist) + 1
    /\ \A i \in 1..Len(req.hist) :
          (~req.hist[i].transport /\ req.hist[i].code = 200) =>
              /\ i = Len(req.hist)
              /\ req.st = "returned"
              /\ req.ret = "body"
    /\ (/\ Len(req.hist) = MAX_RETRIES
        /\ \A i \in 1..MAX_RETRIES : IsRetryable(req.hist[i])) =>
              /\ req.st = "returned"
              /\ req.ret = "null"

Written(recs) == [kind |-> "written", recs |-> recs]

IsPrefix(s, t) == Len(s) <= Len(t) /\ \A i \in 1..Len(s) : s[i] = t[i]

\* The main thread processes the completed future of page p in this step
Collects(p) ==
    /\ pc = "fetch"
    /\ pc' = "fetch"
    /\ p \in DOMAIN unit
    /\ unit[p].st = "done"
    /\ unit'[p].st = "collected"

\* C12: an exception of a page's future, or of the processing of its result,
\* ends the loop body for that page only: no other future is touched, the run
\* stays in the loop, and it leaves the loop only to write the outputs, every
\* planned page fetched and processed.
C12_UnitIsolation ==
    [][(/\ pc = "fetch" => pc' \in {"fetch", "done"}
        /\ \A p \in DOMAIN unit :
              (Collects(p) /\ (unit[p].res = "raised" \/ TransformRaises(p))) =>
                  \A q \in DOMAIN unit \ {p} : unit'[q] = unit[q]
        /\ (pc = "fetch" /\ pc' = "done") =>
              /\ \A p \in Range(pages) :
                    unit[p].st = "collected" /\ unit[p].res # "none"
              /\ out'.json = Written(results)
              /\ out'.jsonl = Written(results))]_vars

\* A run that ended after one page's future raised and another page succeeded
C12_Witness ==
    /\ pc = "done"
    /\ \E p \in Range(pages) : unit[p].res = "raised"
    /\ \E q \in Range(pages) : Succeeded(q) /\ PageOf(q) \in Range(results)
    /\ out.json = Written(results)

\* C13: a run in the fetch loop eventually writes its outputs; it does so only
\* when every submitted future has been yielded, the loop is left no other
\* way, and what results holds stays in it until the outputs are written.
C13_SchedulerTerminates ==
    /\ (pc = "fetch") ~> (pc = "done")
    /\ [][(/\ pc = "fetch" => pc' \in {"fetch", "done"}
           /\ pc = "fetch" => IsPrefix(results, results')
           /\ pc = "fetch" => DOMAIN unit' = DOMAIN unit
           /\ (pc = "fetch" /\ pc' = "done") =>
                 /\ \A p \in DOMAIN unit :
                       unit[p].st = "collected" /\ unit[p].res # "none"
                 /\ out'.json = Written(results))]_vars

\* A run that ended with a page that used up its retries and a page that
\* succeeded
C13_Witness ==
    /\ pc = "done"
    /\ \E p \in Range(pages) :
          unit[p].res = "failed" /\ unit[p].attempt = MAX_RETRIES
    /\ \E q \in Range(pages) : Succeeded(q)
    /\ results # <<>>

\* C14: at most MAX_WORKERS page fetches are executing, and the futures are
\* one per planned offset, each handing in the page of its own offset.
C14_BoundedConcurrency ==
    pc \in {"fetch", "done"} =>
        /\ Cardinality(Running) <= MAX_WORKERS
        /\ DOMAIN unit = Range(pages)
        /\ Cardinality(DOMAIN unit) = Len(pages)
        /\ \A i \in 1..Len(results) :
              /\ results[i].off \in Range(pages)
              /\ unit[results[i].off].st = "collected"
              /\ \A j \in 1..Len(results) : results[j].off = results[i].off => j = i

\* The pool is full and a planned page waits for a thread
C14_Witness ==
    /\ pc = "fetch"
    /\ Cardinality(Running) = MAX_WORKERS
    /\ \E p \in DOMAIN unit : unit[p].st = "queued"

\* C15: on a checkpoint file that is absent, unreadable or corrupt (no JSON,
\* or JSON that is no object holding an integer offset) load_checkpoint
\* returns 0 without raising.
C15_LoadNonFatal ==
    (load.done /\ load.file.kind \in BadFileKinds) =>
        load.outcome = [act |-> "return", val |-> 0]

\* C16: a discovery call that returns None ends the run with an empty result:
\* no plan, no future, the checkpoint file and the output files as they were;
\* and so does every run that ends at the total == 0 check.
C16_DiscoveryFailureAbsorbed ==
    [][(/\ \A o \in net :
              (pc = "discover" /\ AfterAttempt(disc, o) = "null" /\ Discover(o))
                  => pc' = "empty"
        /\ (pc = "discover" /\ pc' = "empty") =>
              /\ results' = <<>>
              /\ pages' = <<>>
              /\ unit' = NoUnits
              /\ ckpt' = ckpt
              /\ out' = out
              /\ startCkpt' = startCkpt)]_vars

\* The discovery of the second project failed after the first project was
\* scraped: nothing was written for it
C16_Witness ==
    /\ pc = "empty"
    /\ Len(finished) = 1
    /\ finished[1].ret = "done"
    /\ out.json = NoOutput
    /\ ckpt = NoFile

\* C17: whatever fails while one project is scraped, main goes on to every
\* later project and returns, and a project that reached the fetch loop has
\* its aggregate in its output files.
C17_MainCompletes ==
    /\ pc # "crashed"
    /\ pc = "exit" => Len(finished) = Len(Projects)
    /\ pc = "done" => (out.json = Written(results) /\ out.jsonl = Written(results))

\* C18: processing the completed future of page p saves the checkpoint exactly
\* when the page has issues, as p + MAX_RESULTS; a page that is empty or
\* failed leaves checkpoint and aggregate as they were.
C18_CheckpointWriteRule ==
    [][\A p \in DOMAIN unit :
          Collects(p) =>
              /\ unit[p].res = "issues" =>
                    /\ saved' = Append(saved, p + MAX_RESULTS)
                    /\ ckpt' = [kind |-> "object", val |-> p + MAX_RESULTS]
              /\ unit[p].res # "issues" =>
                    /\ saved' = saved
                    /\ ckpt' = ckpt
                    /\ results' = results]_vars

\* C19: in the fetch loop the checkpoint file changes only in a step of the
\* main thread that processes one completed future, by the save for that
\* future; a step of a pool thread leaves it alone.
C19_SingleWriter ==
    [][(pc = "fetch" /\ pc' = "fetch" /\ (ckpt' # ckpt \/ saved' # saved)) =>
          \E p \in DOMAIN unit :
              /\ Collects(p)
              /\ \A q \in DOMAIN unit \ {p} : unit'[q] = unit[q]
              /\ saved' = Append(saved, p + MAX_RESULTS)
              /\ ckpt' = [kind |-> "object", val |-> p + MAX_RESULTS]]_vars

\* A checkpoint has been saved while pool threads are still fetching
C19_Witness ==
    /\ pc = "fetch"
    /\ saved # <<>>
    /\ Cardinality(Running) >= 2

\* The discovery call returned with outcome o and the total it gives is not 0
PassesTotalCheck(o) ==
    /\ pc = "discover"
    /\ AfterAttempt(disc, o) \in {"body", "null"}
    /\ ~TotalIsZero(get_total_issues(AfterAttempt(disc, o), o))

\* C20: a run that passes the total == 0 check goes on to plan and fetch, and
\* ends with both output files holding exactly the records it aggregated, all
\* of pages it planned itself; a run with an empty plan fetches nothing and
\* leaves both files empty.
C20_OutputsReplaced ==
    [][(/\ \A o \in net : (PassesTotalCheck(o) /\ Discover(o)) => pc' = "fetch"
        /\ (pc = "fetch" /\ pc' # "fetch") =>
              /\ pc' = "done"
              /\ out'.json = Written(results)
              /\ out'.jsonl = Written(results)
              /\ \A i \in 1..Len(results) : results[i].off \in Range(pages)
              /\ pages = <<>> => results = <<>>)]_vars

====
